---------------------------- MODULE Spec2Model ----------------------------
(***************************************************************************)
(* A model of voice_memo_app.py: the text-budget helpers                   *)
(* (compress_transcript, generate_report, generate_summary_json), the      *)
(* audio helpers (split_audio, transcribe_audio), the summary renderer     *)
(* (summary_to_html) and the processing run of the main script.            *)
(*                                                                         *)
(* Texts are kept as "ropes": a sequence of runs, each run a slice         *)
(* [lo, hi) of a named source text.  Lengths, slices, concatenation,       *)
(* strip and join are computed on the runs, so the program's character     *)
(* budgets keep their real values (12000, 6000, 4000, 3000).               *)
(***************************************************************************)
EXTENDS Integers, Sequences, FiniteSets, TLC

-----------------------------------------------------------------------------
(* Bounds of the model *)

\* Input lengths and sizes are taken within Spread of each threshold.
Spread == 1
\* split_audio: durations span up to MaxWindows whole chunk windows.
MaxWindows == 2
\* transcribe_audio: the audio it splits spans up to MaxSplitWindows whole
\* chunk windows.
MaxSplitWindows == 1
\* the main script: a run starts only while fewer than MaxResults results
\* are stored.
MaxResults == 1

-----------------------------------------------------------------------------
(* Program constants *)

MAX_TRANSCRIPT_CHARS == 12000
MAX_MATERIAL_CHARS == 3000
MAX_REPORT_CHARS == 4000
\* compress_transcript samples three windows of this many characters
SAMPLE_CHARS == 4000
\* generate_report's retry keeps this many characters of the transcript
RETRY_TRANSCRIPT_CHARS == 6000
\* generate_summary_json keeps this many characters of the transcript
SUMMARY_TRANSCRIPT_CHARS == 6000

-----------------------------------------------------------------------------
(* Python str, as a rope *)

Min(a, b) == IF a <= b THEN a ELSE b
Max(a, b) == IF a >= b THEN a ELSE b

\* Sources whose characters are whitespace (a run of them is hi repeats).
Whitespace == {" ", "\n"}

\* A run of n characters of source s starting at its offset lo.
Run(s, lo, n) == [src |-> s, lo |-> lo, hi |-> lo + n]

\* The text made of the first n characters of source s ("" when n = 0).
Body(s, n) == IF n = 0 THEN <<>> ELSE <<Run(s, 0, n)>>

\* Python's None, shaped like a text so that it can be compared with one:
\* a run of no characters, which no text holds.
None == <<[src |-> "None", lo |-> 0, hi |-> 0]>>

RECURSIVE TextLen(_)
\* len(text)
TextLen(t) ==
    IF t = <<>> THEN 0 ELSE (Head(t).hi - Head(t).lo) + TextLen(Tail(t))

\* Two adjacent runs that are one run: contiguous slices of one source, or
\* repeats of one whitespace character.
Mergeable(a, b) ==
    /\ a.src = b.src
    /\ (a.src \in Whitespace \/ a.hi = b.lo)

Merge(a, b) ==
    IF a.src \in Whitespace
    THEN [src |-> a.src, lo |-> 0, hi |-> (a.hi - a.lo) + (b.hi - b.lo)]
    ELSE [src |-> a.src, lo |-> a.lo, hi |-> b.hi]

RECURSIVE Norm(_)
\* The canonical rope of a sequence of runs: no empty run, no two adjacent
\* runs that are one run.  Equal strings have equal canonical ropes.
Norm(t) ==
    IF t = <<>> THEN <<>>
    ELSE IF Head(t).hi <= Head(t).lo THEN Norm(Tail(t))
    ELSE LET rest == Norm(Tail(t)) IN
         IF rest # <<>> /\ Mergeable(Head(t), Head(rest))
         THEN <<Merge(Head(t), Head(rest))>> \o Tail(rest)
         ELSE <<Head(t)>> \o rest

\* a + b
Concat(a, b) == Norm(a \o b)

\* characters [a, b) of one run, 0 <= a <= b <= length
CutRun(r, a, b) ==
    IF r.src \in Whitespace
    THEN [src |-> r.src, lo |-> 0, hi |-> b - a]
    ELSE [src |-> r.src, lo |-> r.lo + a, hi |-> r.lo + b]

RECURSIVE SliceRuns(_, _, _)
SliceRuns(t, a, b) ==
    IF t = <<>> \/ b <= 0 \/ b <= a THEN <<>>
    ELSE LET r == Head(t)
             n == r.hi - r.lo
         IN  IF a >= n
             THEN SliceRuns(Tail(t), a - n, b - n)
             ELSE <<CutRun(r, a, Min(b, n))>> \o SliceRuns(Tail(t), 0, b - n)

\* text[a:b] for 0 <= a and 0 <= b
Slice(t, a, b) == Norm(SliceRuns(t, a, b))

\* text[:n]
Prefix(t, n) == Slice(t, 0, n)

\* text[-n:] for n > 0
Suffix(t, n) == Slice(t, Max(0, TextLen(t) - n), TextLen(t))

RECURSIVE LStrip(_)
LStrip(t) ==
    IF t # <<>> /\ Head(t).src \in Whitespace THEN LStrip(Tail(t)) ELSE t

RECURSIVE RStrip(_)
RStrip(t) ==
    IF t # <<>> /\ t[Len(t)].src \in Whitespace
    THEN RStrip(SubSeq(t, 1, Len(t) - 1))
    ELSE t

\* text.strip()
Strip(t) == RStrip(LStrip(t))

RECURSIVE Join(_, _)
\* sep.join(texts)
Join(sep, texts) ==
    IF texts = <<>> THEN <<>>
    ELSE IF Len(texts) = 1 THEN texts[1]
    ELSE Concat(texts[1], Concat(sep, Join(sep, Tail(texts))))

\* Lengths within Spread of c
Near(c) == {n \in (c - Spread)..(c + Spread) : n >= 0}


-----------------------------------------------------------------------------
(* State *)

VARIABLES
    fn,     \* the function a direct call entered ("idle" before any call)
    args,   \* that call's arguments and the outcomes of its external calls
    ret,    \* what the call returned
    reqs    \* the external requests the call sent, in order

fnVars == <<fn, args, ret, reqs>>

-----------------------------------------------------------------------------
(* The chat-completion API, as the program sees it *)

\* An exception's message, as a sequence of the fragments that matter to
\* the program's tests on it; lower() maps each fragment.
ErrorMessages ==
    { <<"Error code: 429", "rate_limit_exceeded">>,
      <<"Error code: 429", "RATE_LIMIT_EXCEEDED">>,
      <<"Request too large">>,
      <<"Request Too Large">>,
      <<"Connection error.">> }

\* str.lower() on a fragment
LowerFragment(f) ==
    CASE f = "RATE_LIMIT_EXCEEDED" -> "rate_limit_exceeded"
      [] f = "Request Too Large"   -> "request too large"
      [] f = "Request too large"   -> "request too large"
      [] f = "Error code: 429"     -> "error code: 429"
      [] f = "Connection error."   -> "connection error."
      [] OTHER                     -> f

\* error_str.lower()
Lower(msg) == [i \in 1..Len(msg) |-> LowerFragment(msg[i])]

\* the fragments that hold the needle as a substring
FragmentsWith(needle) ==
    CASE needle = "rate_limit_exceeded" -> {"rate_limit_exceeded"}
      [] needle = "too large" -> {"Request too large", "request too large"}
      [] OTHER -> {}

\* needle in msg
Contains(msg, needle) ==
    \E i \in 1..Len(msg) : msg[i] \in FragmentsWith(needle)

\* A response whose choices[0].message.content is c
Completion(c) == [ok |-> TRUE, content |-> c, error |-> <<>>]
\* A request that raised an exception with message e
Failure(e) == [ok |-> FALSE, content |-> None, error |-> e]

\* What a chat-completion request can come to, over the contents cs
ChatOutcomes(cs) ==
    {Completion(c) : c \in cs \cup {None}} \cup {Failure(e) : e \in ErrorMessages}

\* One chat-completion request
ChatRequest(m, what, content) ==
    [api |-> "chat.completions.create", model |-> m,
     purpose |-> what, prompt |-> content]

-----------------------------------------------------------------------------
(* compress_transcript *)

\* the separator between two sampled windows: "\n...(...)...\n"
SampleGap == <<Run("\n", 0, 1), Run("...(chuuryaku)...", 0, 10), Run("\n", 0, 1)>>

\* sampled: the head, the middle third and the tail of the text
Sampled(text) ==
    LET third == TextLen(text) \div 3 IN
    Concat(Prefix(text, SAMPLE_CHARS),
      Concat(SampleGap,
        Concat(Slice(text, third, third + SAMPLE_CHARS),
          Concat(SampleGap, Suffix(text, SAMPLE_CHARS)))))

\* a variant that falls back to the sampled text
compress_transcript_SampledFallback(text, resp) ==
    IF TextLen(text) <= MAX_TRANSCRIPT_CHARS
    THEN [ret |-> text, reqs |-> <<>>]
    ELSE LET req == ChatRequest("gpt-4o-mini", "compress",
                                [sampled |-> Sampled(text)])
         IN  IF resp.ok /\ resp.content # None
             THEN [ret |-> resp.content, reqs |-> <<req>>]
             ELSE [ret |-> Sampled(text), reqs |-> <<req>>]

\* compress_transcript(text, api_key), resp the outcome of its request
compress_transcript(text, resp) ==
    IF TextLen(text) <= MAX_TRANSCRIPT_CHARS
    THEN [ret |-> text, reqs |-> <<>>]
    ELSE LET req == ChatRequest("gpt-4o-mini", "compress",
                                [sampled |-> Sampled(text)])
         IN  \* len(compressed) raises on a None content, inside the try
             IF resp.ok /\ resp.content # None
             THEN [ret |-> resp.content, reqs |-> <<req>>]
             ELSE [ret |-> Prefix(text, MAX_TRANSCRIPT_CHARS), reqs |-> <<req>>]

-----------------------------------------------------------------------------
(* generate_report *)

\* Python truthiness of an optional text
Truthy(t) == t # None /\ t # <<>>

\* the material text the prompt embeds (safe_material without its frame)
SafeMaterial(material_text) ==
    IF Truthy(material_text) /\ Strip(material_text) # <<>>
    THEN Prefix(material_text, MAX_MATERIAL_CHARS)
    ELSE <<>>

\* a variant that embeds the transcript uncut
SafeTranscript_Uncut(combined_transcript) == combined_transcript

\* safe_transcript = combined_transcript[:MAX_TRANSCRIPT_CHARS]
SafeTranscript(combined_transcript) ==
    Prefix(combined_transcript, MAX_TRANSCRIPT_CHARS)

\* short_transcript = combined_transcript[:6000]
ShortTranscript(combined_transcript) ==
    Prefix(combined_transcript, RETRY_TRANSCRIPT_CHARS)

\* the report prompt, by the texts it embeds
ReportPrompt(combined_transcript, file_labels, material_text) ==
    [file_labels  |-> file_labels,
     material     |-> SafeMaterial(material_text),
     transcript   |-> SafeTranscript(combined_transcript),
     has_material |-> Truthy(material_text)]

\* prompt.replace(old, new): every embedded text equal to old becomes new.
\* (The material is at most 3000 characters and old differs from new only
\* when it is longer than 6000, so old occurs in the transcript slot only.)
Replace(prompt, old, new) ==
    [prompt EXCEPT
        !.material   = IF @ = old THEN new ELSE @,
        !.transcript = IF @ = old THEN new ELSE @]

\* a variant that retries after any error
RetryableError_Always(error_str) == TRUE

\* the test that decides the retry
RetryableError(error_str) ==
    \/ Contains(error_str, "rate_limit_exceeded")
    \/ Contains(Lower(error_str), "too large")

\* generate_report(combined_transcript, file_labels, material_text, api_key),
\* resp and resp2 the outcomes of the first and of the second request
generate_report(combined_transcript, file_labels, material_text, resp, resp2) ==
    LET safe_transcript == SafeTranscript(combined_transcript)
        prompt == ReportPrompt(combined_transcript, file_labels, material_text)
        first  == ChatRequest("gpt-4o", "report", prompt)
    IN  IF resp.ok
        THEN [ret |-> resp.content, reqs |-> <<first>>]
        ELSE IF RetryableError(resp.error)
        THEN LET short_transcript == ShortTranscript(combined_transcript)
                 second == ChatRequest("gpt-4o", "report",
                              Replace(prompt, safe_transcript, short_transcript))
             IN  IF resp2.ok
                 THEN [ret |-> resp2.content, reqs |-> <<first, second>>]
                 ELSE [ret |-> None, reqs |-> <<first, second>>]
        ELSE [ret |-> None, reqs |-> <<first>>]

-----------------------------------------------------------------------------
(* generate_summary_json *)

\* Python's None where a parsed JSON object is expected: a record with a
\* key no summary has.
NoneData == [None |-> TRUE]

\* A message content that json.loads parses to the object d
JsonText(d) == [valid |-> TRUE, value |-> d]
\* A message content json.loads raises on (malformed text, or None)
BadJson == [valid |-> FALSE, value |-> NoneData]

\* the summary prompt, by the texts it embeds
SummaryPrompt(combined_transcript, report, material_text) ==
    [transcript |-> Prefix(combined_transcript, SUMMARY_TRANSCRIPT_CHARS),
     report     |-> Prefix(report, MAX_REPORT_CHARS),
     mat_note   |-> Truthy(material_text)]

\* generate_summary_json(combined_transcript, report, material_text, api_key),
\* resp the outcome of its request
generate_summary_json(combined_transcript, report, material_text, resp) ==
    LET req == ChatRequest("gpt-4o", "summary",
                   SummaryPrompt(combined_transcript, report, material_text))
    IN  IF resp.ok /\ resp.content.valid
        THEN [ret |-> resp.content.value, reqs |-> <<req>>]
        ELSE [ret |-> NoneData, reqs |-> <<req>>]

-----------------------------------------------------------------------------
(* split_audio *)

\* split_audio's default chunk_sec
DEFAULT_CHUNK_SEC == 600

\* What one ffmpeg segment run can come to: the run fails (check=True
\* raises), or it leaves a file of at most ("small") or of more than ("ok")
\* 1000 bytes; only the latter is kept as a chunk.
SegOutcomes == {"fail", "small", "ok"}

\* a variant that rounds the quotient up instead
NumChunks_Ceil(duration, chunk_sec) == (duration + chunk_sec - 1) \div chunk_sec

\* num_chunks = int(duration / chunk_sec) + 1
NumChunks(duration, chunk_sec) == (duration \div chunk_sec) + 1

\* a variant that starts segment i one window late
SegmentRequest_Late(i, chunk_sec) ==
    [api |-> "ffmpeg", ss |-> (i + 1) * chunk_sec, t |-> chunk_sec, out |-> i]

\* the ffmpeg run that cuts segment i
SegmentRequest(i, chunk_sec) ==
    [api |-> "ffmpeg", ss |-> i * chunk_sec, t |-> chunk_sec, out |-> i]

RECURSIVE SplitLoop(_, _, _, _, _, _)
\* the loop over range(num_chunks), from index i on
SplitLoop(i, num_chunks, chunk_sec, seg, chunks, sent) ==
    IF i >= num_chunks
    THEN [ret |-> chunks, reqs |-> sent, raised |-> FALSE]
    ELSE LET sent2 == Append(sent, SegmentRequest(i, chunk_sec)) IN
         IF seg[i] = "fail"
         THEN [ret |-> <<>>, reqs |-> sent2, raised |-> TRUE]
         ELSE SplitLoop(i + 1, num_chunks, chunk_sec, seg,
                        IF seg[i] = "ok" THEN Append(chunks, i) ELSE chunks,
                        sent2)

\* split_audio(input_path, chunk_sec); env.probe_ok and env.duration are
\* ffprobe's outcome, env.seg[i] the outcome of the ffmpeg run of segment i.
\* The chunks are named by their index.
split_audio(chunk_sec, env) ==
    LET probe == [api |-> "ffprobe", ss |-> 0, t |-> 0, out |-> 0] IN
    IF ~env.probe_ok
    THEN [ret |-> <<>>, reqs |-> <<probe>>, raised |-> TRUE]
    ELSE SplitLoop(0, NumChunks(env.duration, chunk_sec), chunk_sec,
                   env.seg, <<>>, <<probe>>)

\* The outcomes of the external runs of one split_audio call on an audio of
\* the given durations.
SplitEnvs(durations, chunk_sec) ==
    {[probe_ok |-> FALSE, duration |-> 0, seg |-> <<>>]} \cup
    UNION {
      {[probe_ok |-> TRUE, duration |-> d, seg |-> sg] :
         sg \in [0..(NumChunks(d, chunk_sec) - 1) -> SegOutcomes]}
      : d \in durations }

-----------------------------------------------------------------------------
(* transcribe_audio *)

\* max_size = 24 * 1024 * 1024
max_size == 24 * 1024 * 1024

\* a variant that also takes a file of exactly max_size for too large
TooLarge_Inclusive(size) == size >= max_size

\* if size > max_size: the test before compressing and before splitting
TooLarge(size) == size > max_size

\* A speech-to-text response whose text is t
Transcription(t) == [ok |-> TRUE, text |-> t]
\* A speech-to-text request that raised
SttFailure == [ok |-> FALSE, text |-> None]

\* One speech-to-text request: the file sent and its size where known
SttRequest(file, size) ==
    [api |-> "audio.transcriptions.create", file |-> file, size |-> size]

RECURSIVE ChunkLoop_Partial(_, _, _, _, _)
\* a variant that returns what it has when a chunk's request fails
ChunkLoop_Partial(k, chunks, stt, texts, sent) ==
    IF k > Len(chunks)
    THEN [ret |-> Strip(Join(Body(" ", 1), texts)), reqs |-> sent]
    ELSE LET sent2 == Append(sent, SttRequest(<<"chunk", chunks[k]>>, -1)) IN
         IF ~stt[k].ok
         THEN [ret |-> Strip(Join(Body(" ", 1), texts)), reqs |-> sent2]
         ELSE ChunkLoop_Partial(k + 1, chunks, stt, Append(texts, stt[k].text), sent2)

RECURSIVE ChunkLoop(_, _, _, _, _)
\* the loop over enumerate(chunks), from position k on
ChunkLoop(k, chunks, stt, texts, sent) ==
    IF k > Len(chunks)
    THEN [ret |-> Strip(Join(Body(" ", 1), texts)), reqs |-> sent]
    ELSE LET sent2 == Append(sent, SttRequest(<<"chunk", chunks[k]>>, -1)) IN
         IF ~stt[k].ok
         THEN [ret |-> None, reqs |-> sent2]
         ELSE ChunkLoop(k + 1, chunks, stt, Append(texts, stt[k].text), sent2)

\* transcribe_audio(file_path, api_key) on a file of the given size.
\* env.comp_ok, env.comp_size: compress_audio's outcome and the size of the
\* compressed copy; env.split: the outcomes of split_audio's external runs;
\* env.stt[k]: the outcome of the request for the k-th chunk; env.whole: the
\* outcome of the request for the whole file.
transcribe_audio(size, env) ==
    LET compress == TooLarge(size)
        comp_req == [api |-> "compress_audio", file |-> <<"input">>, size |-> size]
    IN
    IF compress /\ ~env.comp_ok
    THEN [ret |-> None, reqs |-> <<comp_req>>]
    ELSE
      LET work_path == IF compress THEN <<"comp">> ELSE <<"input">>
          size2     == IF compress THEN env.comp_size ELSE size
          sent      == IF compress THEN <<comp_req>> ELSE <<>>
      IN
      IF TooLarge(size2)
      THEN LET split == split_audio(DEFAULT_CHUNK_SEC, env.split)
               sent2 == Append(sent, [api |-> "split_audio",
                                      file |-> work_path, size |-> size2])
           IN  IF split.ret = <<>>
               THEN [ret |-> None, reqs |-> sent2]
               ELSE ChunkLoop(1, split.ret, env.stt, <<>>, sent2)
      ELSE LET sent2 == Append(sent, SttRequest(work_path, size2)) IN
           IF env.whole.ok
           THEN [ret |-> env.whole.text, reqs |-> sent2]
           ELSE [ret |-> None, reqs |-> sent2]

-----------------------------------------------------------------------------
(* JSON values and Python dicts *)

\* A parsed JSON value: a string, a list (of strings or of objects) or null.
\* An object is a record over the keys it has.
JStr(x)  == [t |-> "str",  v |-> <<x>>]
JList(xs) == [t |-> "list", v |-> xs]
JNull    == [t |-> "null", v |-> <<>>]

\* a variant without the default: d.get(k)
Get_NoDefault(d, k, default) == IF k \in DOMAIN d THEN d[k] ELSE JNull

\* d.get(k, default)
Get(d, k, default) == IF k \in DOMAIN d THEN d[k] ELSE default

\* bool(x)
Truth(x) ==
    CASE x.t = "null" -> FALSE
      [] x.t = "list" -> x.v # <<>>
      [] x.t = "str"  -> x.v # <<"">>

\* f"{x}"
Fmt(x) ==
    CASE x.t = "str"  -> x.v[1]
      [] x.t = "null" -> "None"
      [] x.t = "list" -> "[...]"

\* the object d without the keys outside K
Restrict(d, K) == [k \in (DOMAIN d) \cap K |-> d[k]]

-----------------------------------------------------------------------------
(* summary_to_html *)

\* The urgency values of the schema: high, middle, low
URGENCY_HIGH == "kou"
URGENCY_MID  == "chuu"
URGENCY_LOW  == "tei"

\* the placeholder of an empty section ("not mentioned")
EMPTY_NOTE == "genkyuu-nashi"

\* {"kou": "#e53e5a", "chuu": "#f5a623", "tei": "#22c38e"}.get(u, "#888")
ColorOf(u) ==
    CASE u.t = "str" /\ u.v[1] = URGENCY_HIGH -> "#e53e5a"
      [] u.t = "str" /\ u.v[1] = URGENCY_MID  -> "#f5a623"
      [] u.t = "str" /\ u.v[1] = URGENCY_LOW  -> "#22c38e"
      [] OTHER -> "#888"

\* {"kou": "#fff0f2", "chuu": "#fff8ee", "tei": "#f0fff8"}.get(u, "#f5f5f5")
BgOf(u) ==
    CASE u.t = "str" /\ u.v[1] = URGENCY_HIGH -> "#fff0f2"
      [] u.t = "str" /\ u.v[1] = URGENCY_MID  -> "#fff8ee"
      [] u.t = "str" /\ u.v[1] = URGENCY_LOW  -> "#f0fff8"
      [] OTHER -> "#f5f5f5"

\* the badge icon: red if urgency == high, yellow if == middle, else green
IconOf(data) ==
    LET u == Get(data, "urgency", JNull) IN
    IF u.t = "str" /\ u.v[1] = URGENCY_HIGH THEN "red"
    ELSE IF u.t = "str" /\ u.v[1] = URGENCY_MID THEN "yellow"
    ELSE "green"

\* the order key of an action: {"kou":0,"chuu":1,"tei":2}.get(priority, 1)
PriorityKey(a) ==
    LET p == Get(a, "priority", JStr(URGENCY_MID)) IN
    CASE p.t = "str" /\ p.v[1] = URGENCY_HIGH -> 0
      [] p.t = "str" /\ p.v[1] = URGENCY_LOW  -> 2
      [] OTHER -> 1

RECURSIVE Filter(_, _)
\* the items of xs whose order key is k, in their order
Filter(xs, k) ==
    IF xs = <<>> THEN <<>>
    ELSE IF PriorityKey(Head(xs)) = k
         THEN <<Head(xs)>> \o Filter(Tail(xs), k)
         ELSE Filter(Tail(xs), k)

\* sorted(actions, key=...): a stable sort on the three order keys
SortedActions(xs) == Filter(xs, 0) \o Filter(xs, 1) \o Filter(xs, 2)

\* Iterating a value: a list gives its items, None raises TypeError.
CanIterate(x) == x.t = "list"

\* One rendered section: whether rendering it raised, and its content
Section(raised, body) == [raised |-> raised, body |-> body]

\* A section's content: the items rendered, under the wrapper written around
\* them ("" for none), or the note that stands for them ("" for none)
Items(wrapper, items) == [wrapper |-> wrapper, note |-> "", items |-> items]
Note(text) == [wrapper |-> "", note |-> text, items |-> <<>>]
Nothing == [wrapper |-> "", note |-> "", items |-> <<>>]

\* flow_html: one box per flow item, an arrow after all but the last
FlowHtml(data) ==
    LET flow_items == Get(data, "flow", JList(<<>>)) IN
    IF ~CanIterate(flow_items) THEN Section(TRUE, Nothing)
    ELSE Section(FALSE, Items("flow-wrap",
           [i \in 1..Len(flow_items.v) |->
              [time    |-> Fmt(Get(flow_items.v[i], "time", JStr(""))),
               topic   |-> Fmt(Get(flow_items.v[i], "topic", JStr(""))),
               summary |-> Fmt(Get(flow_items.v[i], "summary", JStr(""))),
               arrow   |-> i < Len(flow_items.v)]]))

\* dec_html / con_html: a card per item, or the placeholder
CardsHtml(data, key) ==
    LET items == Get(data, key, JList(<<>>)) IN
    IF ~Truth(items) THEN Section(FALSE, Note(EMPTY_NOTE))
    ELSE IF ~CanIterate(items) THEN Section(TRUE, Nothing)
    ELSE Section(FALSE, Items("",
           [i \in 1..Len(items.v) |->
              [title  |-> Fmt(Get(items.v[i], "title", JStr(""))),
               detail |-> Fmt(Get(items.v[i], "detail", JStr("")))]]))

\* act_html: a row per action in priority order, or the placeholder
ActionsHtml(data) ==
    LET actions == Get(data, "actions", JList(<<>>)) IN
    IF ~Truth(actions) THEN Section(FALSE, Note(EMPTY_NOTE))
    ELSE IF ~CanIterate(actions) THEN Section(TRUE, Nothing)
    ELSE LET srt == SortedActions(actions.v) IN
         Section(FALSE, Items("",
           [i \in 1..Len(srt) |->
              [color    |-> ColorOf(Get(srt[i], "priority", JStr(URGENCY_MID))),
               priority |-> Fmt(Get(srt[i], "priority", JStr(""))),
               what     |-> Fmt(Get(srt[i], "what", JStr(""))),
               who      |-> Fmt(Get(srt[i], "who", JStr("mitei"))),
               when     |-> Fmt(Get(srt[i], "when", JStr("kigen-mitei")))]]))

\* next_html: a list item per topic, or the placeholder
NextHtml(data) ==
    LET nexts == Get(data, "next_topics", JList(<<>>)) IN
    IF ~Truth(nexts) THEN Section(FALSE, Note(EMPTY_NOTE))
    ELSE IF ~CanIterate(nexts) THEN Section(TRUE, Nothing)
    ELSE Section(FALSE, Items("", [i \in 1..Len(nexts.v) |-> Fmt(nexts.v[i])]))

\* num_html and the KPI row: the row is written only if nums is non-empty
KpiRow(data) ==
    LET nums == Get(data, "key_numbers", JList(<<>>)) IN
    IF ~CanIterate(nums) THEN Section(TRUE, Nothing)
    ELSE IF ~Truth(nums) THEN Section(FALSE, Nothing)
    ELSE Section(FALSE, Items("kpi-row",
           [i \in 1..Len(nums.v) |->
              [value |-> Fmt(Get(nums.v[i], "value", JStr(""))),
               label |-> Fmt(Get(nums.v[i], "label", JStr("")))]]))

\* kw_html and the keyword section: written only if keywords is non-empty
KeywordSection(data) ==
    LET keywords == Get(data, "keywords", JList(<<>>)) IN
    IF ~CanIterate(keywords) THEN Section(TRUE, Nothing)
    ELSE IF ~Truth(keywords) THEN Section(FALSE, Nothing)
    ELSE Section(FALSE, Items("keyword-wrap",
           [i \in 1..Len(keywords.v) |-> Fmt(keywords.v[i])]))

\* par_html: the participants joined, or "unknown"
ParHtml(data) ==
    LET participants == Get(data, "participants", JList(<<>>)) IN
    IF ~Truth(participants) THEN Section(FALSE, Note("fumei"))
    ELSE IF ~CanIterate(participants) THEN Section(TRUE, Nothing)
    ELSE Section(FALSE,
           Items("", [i \in 1..Len(participants.v) |-> Fmt(participants.v[i])]))

\* summary_to_html(data, file_labels, generated_at): the document by its
\* interpolated parts, or raised = TRUE when building a part raises.
summary_to_html(data, file_labels, generated_at) ==
    LET flow == FlowHtml(data)
        dec  == CardsHtml(data, "decisions")
        act  == ActionsHtml(data)
        con  == CardsHtml(data, "concerns")
        nxt  == NextHtml(data)
        kpi  == KpiRow(data)
        kw   == KeywordSection(data)
        par  == ParHtml(data)
        u    == Get(data, "urgency", JStr(URGENCY_MID))
    IN
    IF flow.raised \/ dec.raised \/ act.raised \/ con.raised \/ nxt.raised
       \/ kpi.raised \/ kw.raised \/ par.raised
    THEN [raised |-> TRUE]
    ELSE
      [raised        |-> FALSE,
       title         |-> Fmt(Get(data, "title", JStr("kouzouka-summary"))),
       date          |-> Fmt(Get(data, "date", JStr("fumei"))),
       type          |-> Fmt(Get(data, "type", JStr("kaigi"))),
       duration      |-> Fmt(Get(data, "duration", JStr("fumei"))),
       participants  |-> par.body,
       one_line      |-> Fmt(Get(data, "one_line", JStr(""))),
       urgency_color |-> ColorOf(u),
       urgency_bg    |-> BgOf(u),
       urgency_icon  |-> IconOf(data),
       urgency_text  |-> Fmt(u),
       files_html    |-> file_labels,
       kpi_row       |-> kpi.body,
       flow_html     |-> flow.body,
       dec_html      |-> dec.body,
       con_html      |-> con.body,
       act_html      |-> act.body,
       next_html     |-> nxt.body,
       keyword_section |-> kw.body,
       generated_at  |-> generated_at]

-----------------------------------------------------------------------------
(* The inputs of the direct calls *)

\* transcript lengths: around 0, around the retry and summary cut (6000)
\* and around the transcript budget (12000)
TranscriptLens ==
    Near(0) \cup Near(RETRY_TRANSCRIPT_CHARS) \cup Near(MAX_TRANSCRIPT_CHARS)

Transcripts == {Body("t", n) : n \in TranscriptLens}

\* texts to compress: the above and texts three times the budget long
CompressInputs ==
    Transcripts \cup {Body("t", n) : n \in Near(3 * MAX_TRANSCRIPT_CHARS)}

\* what the compression request may answer: any text, short or long
CompressedTexts ==
    {Body("gpt", n) : n \in Near(0) \cup Near(MAX_TRANSCRIPT_CHARS)}

\* material texts: None, "", blank, and texts around the material budget
Materials ==
    {None, <<>>, Body(" ", 1)} \cup {Body("m", n) : n \in Near(MAX_MATERIAL_CHARS)}

\* report texts: as answered by the report request, and around the report
\* budget of the summary prompt
ReportAnswers == {<<>>, Body("r", 1)}
Reports == {Body("r", n) : n \in {1} \cup Near(MAX_REPORT_CHARS)}

LabelLists == {<<"a.mp3">>, <<"a.mp3", "b.mp3">>}

\* file sizes around the threshold
FileSizes == {max_size + d : d \in (0 - Spread)..Spread}

\* what the speech-to-text API may answer for a file: "", a text, a text
\* with a blank at its start or at its end
SttTexts ==
    {<<>>, Body("a", 1), Body("b", 1),
     Concat(Body(" ", 1), Body("a", 1)), Concat(Body("b", 1), Body(" ", 1))}

SttOutcomes == {Transcription(t) : t \in SttTexts} \cup {SttFailure}

NoSplit == [probe_ok |-> FALSE, duration |-> 0, seg |-> <<>>]

\* the outcomes of the external calls of one transcribe_audio call; those of
\* calls a file of this size does not lead to are left at a default
TranscribeEnv(c, sp, stt, w) ==
    [comp_ok |-> c.ok, comp_size |-> c.size, split |-> sp, stt |-> stt, whole |-> w]

TranscribeEnvs(size) ==
    LET comps == IF size > max_size
                 THEN {[ok |-> FALSE, size |-> 0]} \cup
                      {[ok |-> TRUE, size |-> z] : z \in FileSizes}
                 ELSE {[ok |-> TRUE, size |-> size]}
        durations == {k * DEFAULT_CHUNK_SEC : k \in 0..MaxSplitWindows}
    IN  UNION {
          IF ~c.ok THEN {TranscribeEnv(c, NoSplit, <<>>, SttFailure)}
          ELSE IF c.size > max_size
          THEN UNION {
                 {TranscribeEnv(c, sp, stt, SttFailure) :
                    stt \in [1..Len(split_audio(DEFAULT_CHUNK_SEC, sp).ret)
                               -> SttOutcomes]}
                 : sp \in SplitEnvs(durations, DEFAULT_CHUNK_SEC) }
          ELSE {TranscribeEnv(c, NoSplit, <<>>, w) : w \in SttOutcomes}
          : c \in comps }

-----------------------------------------------------------------------------
(* Direct calls of the functions *)

\* Each call starts from the idle state, with arguments and outcomes of its
\* external calls drawn from the sets above, and runs to its return.

Call_compress_transcript ==
    /\ fn = "idle"
    /\ \E text \in CompressInputs, resp \in ChatOutcomes(CompressedTexts) :
          LET out == compress_transcript(text, resp) IN
          /\ fn' = "compress_transcript"
          /\ args' = [text |-> text, resp |-> resp]
          /\ ret' = out.ret
          /\ reqs' = out.reqs

Call_generate_report ==
    /\ fn = "idle"
    /\ \E ct \in Transcripts, labels \in LabelLists, material \in Materials,
         resp \in ChatOutcomes(ReportAnswers) :
        \E resp2 \in (IF resp.ok THEN {resp} ELSE ChatOutcomes(ReportAnswers)) :
          LET out == generate_report(ct, labels, material, resp, resp2) IN
          /\ fn' = "generate_report"
          /\ args' = [combined_transcript |-> ct, file_labels |-> labels,
                      material_text |-> material, resp |-> resp, resp2 |-> resp2]
          /\ ret' = out.ret
          /\ reqs' = out.reqs

\* the keys of the summary schema
SchemaKeys ==
    {"title", "date", "type", "duration", "urgency", "one_line",
     "participants", "flow", "decisions", "actions", "concerns",
     "next_topics", "key_numbers", "keywords"}

\* the keys whose value is a list
ListKeys ==
    {"participants", "flow", "decisions", "actions", "concerns",
     "next_topics", "key_numbers", "keywords"}

\* an object with no key
EmptyObject == [k \in {} |-> JNull]

\* a summary with every key, every list filled with complete items
FullSummary ==
    [title |-> JStr("T"), date |-> JStr("2024-01-01"), type |-> JStr("1on1"),
     duration |-> JStr("30min"), urgency |-> JStr(URGENCY_HIGH),
     one_line |-> JStr("O"),
     participants |-> JList(<<JStr("p1"), JStr("p2")>>),
     flow |-> JList(<<[time |-> JStr("early"), topic |-> JStr("t1"), summary |-> JStr("s1")],
                      [time |-> JStr("late"), topic |-> JStr("t2"), summary |-> JStr("s2")]>>),
     decisions |-> JList(<<[title |-> JStr("d1"), detail |-> JStr("dd1")]>>),
     actions |-> JList(<<[priority |-> JStr(URGENCY_LOW), who |-> JStr("w1"),
                          what |-> JStr("a1"), when |-> JStr("e1")],
                         [priority |-> JStr(URGENCY_HIGH), who |-> JStr("w2"),
                          what |-> JStr("a2"), when |-> JStr("e2")]>>),
     concerns |-> JList(<<[title |-> JStr("c1"), detail |-> JStr("cd1")]>>),
     next_topics |-> JList(<<JStr("n1")>>),
     key_numbers |-> JList(<<[label |-> JStr("l1"), value |-> JStr("v1")]>>),
     keywords |-> JList(<<JStr("k1"), JStr("k2")>>)]

\* a summary with every key, whose items lack some or all of their keys
SparseSummary ==
    [title |-> JStr("T"), date |-> JStr("2024-01-01"), type |-> JStr("1on1"),
     duration |-> JStr("30min"), urgency |-> JStr(URGENCY_LOW),
     one_line |-> JStr("O"),
     participants |-> JList(<<JStr("p1")>>),
     flow |-> JList(<<EmptyObject, [topic |-> JStr("t2")]>>),
     decisions |-> JList(<<EmptyObject, [detail |-> JStr("dd2")]>>),
     actions |-> JList(<<[what |-> JStr("a1")], EmptyObject,
                         [priority |-> JStr(URGENCY_HIGH)]>>),
     concerns |-> JList(<<[title |-> JStr("c1")], EmptyObject>>),
     next_topics |-> JList(<<JStr("n1")>>),
     key_numbers |-> JList(<<EmptyObject, [value |-> JStr("v2")]>>),
     keywords |-> JList(<<JStr("k1")>>)]

\* a summary with every key, every list empty and every string ""
BlankSummary ==
    [k \in SchemaKeys |-> IF k \in ListKeys THEN JList(<<>>) ELSE JStr("")]

\* summaries in which any subset of the schema keys is absent
SubsetObjects ==
    {Restrict(b, K) : b \in {FullSummary, SparseSummary, BlankSummary},
                      K \in SUBSET SchemaKeys}

\* summaries in which one key holds null or an urgency outside the schema
OddObjects ==
    {[FullSummary EXCEPT ![k] = JNull] : k \in SchemaKeys} \cup
    {[FullSummary EXCEPT !.urgency = JStr(u)] :
        u \in {URGENCY_HIGH, URGENCY_MID, URGENCY_LOW, "unknown"}}

SummaryObjects == SubsetObjects \cup OddObjects

\* what the summary request may answer: a JSON object, or text that
\* json.loads rejects
SummaryOutcomes ==
    {Completion(JsonText(d)) : d \in {EmptyObject, FullSummary, SparseSummary}}
    \cup {Completion(BadJson)} \cup {Failure(e) : e \in ErrorMessages}

Call_generate_summary_json ==
    /\ fn = "idle"
    /\ \E ct \in Transcripts, report \in Reports,
         material \in {None, Body("m", 1)}, resp \in SummaryOutcomes :
          LET out == generate_summary_json(ct, report, material, resp) IN
          /\ fn' = "generate_summary_json"
          /\ args' = [combined_transcript |-> ct, report |-> report,
                      material_text |-> material, resp |-> resp]
          /\ ret' = out.ret
          /\ reqs' = out.reqs

\* chunk lengths: one second, a few seconds, and the default ten minutes
ChunkSecs == {1, 7, DEFAULT_CHUNK_SEC}

\* durations around every whole number of windows up to MaxWindows
Durations(chunk_sec) ==
    {n \in {k * chunk_sec + d : k \in 0..MaxWindows, d \in (0 - Spread)..Spread} :
        n >= 0}

Call_split_audio ==
    /\ fn = "idle"
    /\ \E chunk_sec \in ChunkSecs :
        \E env \in SplitEnvs(Durations(chunk_sec), chunk_sec) :
          LET out == split_audio(chunk_sec, env) IN
          /\ fn' = "split_audio"
          /\ args' = [chunk_sec |-> chunk_sec, env |-> env, raised |-> out.raised]
          /\ ret' = out.ret
          /\ reqs' = out.reqs

Call_transcribe_audio ==
    /\ fn = "idle"
    /\ \E size \in FileSizes :
        \E env \in TranscribeEnvs(size) :
          LET out == transcribe_audio(size, env) IN
          /\ fn' = "transcribe_audio"
          /\ args' = [size |-> size, env |-> env]
          /\ ret' = out.ret
          /\ reqs' = out.reqs

Call_summary_to_html ==
    /\ fn = "idle"
    /\ \E data \in SummaryObjects :
          /\ fn' = "summary_to_html"
          /\ args' = [data |-> data, file_labels |-> <<"a.mp3">>,
                      generated_at |-> "2024-01-01 10:00"]
          /\ ret' = summary_to_html(data, <<"a.mp3">>, "2024-01-01 10:00")
          /\ reqs' = <<>>

-----------------------------------------------------------------------------
(* The main script: sort_key and the order of the uploaded files *)

\* the width sort_key fills its digits to
ZFILL_WIDTH == 20

\* the characters of the file names used
Chars(name) ==
    CASE name = "2.wav"  -> <<"2", ".", "w", "a", "v">>
      [] name = "10.wav" -> <<"1", "0", ".", "w", "a", "v">>
      [] name = "memo.wav" -> <<"m", "e", "m", "o", ".", "w", "a", "v">>

Digits == {"0", "1", "2", "3", "4", "5", "6", "7", "8", "9"}

\* ord(c), for the characters of the names used
Ord(c) ==
    CASE c = "." -> 46
      [] c = "0" -> 48 [] c = "1" -> 49 [] c = "2" -> 50 [] c = "3" -> 51
      [] c = "4" -> 52 [] c = "5" -> 53 [] c = "6" -> 54 [] c = "7" -> 55
      [] c = "8" -> 56 [] c = "9" -> 57
      [] c = "a" -> 97 [] c = "e" -> 101 [] c = "m" -> 109 [] c = "o" -> 111
      [] c = "v" -> 118 [] c = "w" -> 119

\* s.zfill(width)
ZFill(str, width) ==
    IF Len(str) >= width THEN str
    ELSE [i \in 1..(width - Len(str)) |-> "0"] \o str

\* sort_key(f): the digits of the name, zero-filled, or the name itself
sort_key(name) ==
    LET nums == SelectSeq(Chars(name), LAMBDA c : c \in Digits) IN
    IF nums # <<>> THEN ZFill(nums, ZFILL_WIDTH) ELSE Chars(name)

RECURSIVE StrLess(_, _)
\* a < b on Python strings
StrLess(a, b) ==
    IF b = <<>> THEN FALSE
    ELSE IF a = <<>> THEN TRUE
    ELSE IF Ord(Head(a)) # Ord(Head(b)) THEN Ord(Head(a)) < Ord(Head(b))
    ELSE StrLess(Tail(a), Tail(b))

RECURSIVE Insert(_, _)
\* f put into the sorted sequence, after the files whose key is not larger
Insert(f, sorted) ==
    IF sorted = <<>> THEN <<f>>
    ELSE IF StrLess(sort_key(f.name), sort_key(Head(sorted).name))
         THEN <<f>> \o sorted
         ELSE <<Head(sorted)>> \o Insert(f, Tail(sorted))

RECURSIVE Sorted(_)
\* sorted(audio_files, key=sort_key): stable
Sorted(files) ==
    IF files = <<>> THEN <<>>
    ELSE Insert(files[Len(files)], Sorted(SubSeq(files, 1, Len(files) - 1)))

-----------------------------------------------------------------------------
(* The inputs of a run *)

File(name) == [name |-> name]

\* what the user uploads as audio: one or two files, in either order; the
\* uploader takes two files of the same name
AudioUploads ==
    { <<File("2.wav")>>, <<File("memo.wav")>>,
      <<File("2.wav"), File("10.wav")>>, <<File("10.wav"), File("2.wav")>>,
      <<File("memo.wav"), File("2.wav")>>, <<File("memo.wav"), File("memo.wav")>> }

\* what the user uploads as material, by what extract_material_text makes
\* of each file: a text, or a text that starts with "[" (an error note)
MaterialUploads ==
    { <<>>,
      <<[name |-> "s.pdf", text |-> Body("m", 1), note |-> FALSE]>>,
      <<[name |-> "s.pdf", text |-> Body("[PDF error]", 11), note |-> TRUE]>> }

\* one text longer than the transcript budget
LongText == Body("a", MAX_TRANSCRIPT_CHARS + 1)

\* the size of an uploaded file and the outcomes of the external calls of
\* its transcription
RunTranscriptions ==
    {[size |-> max_size,
      env |-> TranscribeEnv([ok |-> TRUE, size |-> max_size], NoSplit, <<>>, w)] :
        w \in {SttFailure, Transcription(<<>>), Transcription(Body("a", 1)),
               Transcription(LongText)}}
    \cup
    {[size |-> max_size + 1, env |-> e] : e \in
        { TranscribeEnv([ok |-> FALSE, size |-> 0], NoSplit, <<>>, SttFailure),
          TranscribeEnv([ok |-> TRUE, size |-> max_size], NoSplit, <<>>,
                        Transcription(Body("a", 1))),
          TranscribeEnv([ok |-> TRUE, size |-> max_size + 1],
                        [probe_ok |-> TRUE, duration |-> 0, seg |-> (0 :> "ok")],
                        <<Transcription(Body("a", 1))>>, SttFailure) }}

RunCompressOutcomes ==
    { Completion(Body("gpt", 8000)), Completion(LongText),
      Failure(<<"Connection error.">>) }

RunReportOutcomes ==
    { Completion(Body("r", 1)), Completion(None),
      Failure(<<"Error code: 429", "rate_limit_exceeded">>),
      Failure(<<"Connection error.">>) }

RunSummaryOutcomes ==
    { Completion(JsonText(FullSummary)), Completion(JsonText(EmptyObject)),
      Completion(JsonText([FullSummary EXCEPT !.flow = JNull])),
      Completion(BadJson), Failure(<<"Connection error.">>) }

\* the time written into a result
Now == "2024-01-01 10:00"

-----------------------------------------------------------------------------
(* The main script: one processing run *)

VARIABLES
    results,              \* st.session_state.results, newest first
    pc,                   \* where the script run stands
    sorted_audio,         \* the uploaded audio files in processing order
    idx,                  \* the number of files the loop has handled
    transcript,           \* what transcribe_audio returned for the last file
    transcripts_per_file, \* <<name, transcript>> of each file transcribed
    combined_material,    \* the material text, or None
    raw_transcript,       \* the transcripts joined
    combined_transcript,  \* the text given to the report and the summary
    report,               \* what generate_report returned
    summary_data,         \* what generate_summary_json returned
    log                   \* the external requests of the run, in order

runVars == <<results, pc, sorted_audio, idx, transcript, transcripts_per_file,
             combined_material, raw_transcript, combined_transcript,
             report, summary_data, log>>

vars == <<fn, args, ret, reqs, results, pc, sorted_audio, idx, transcript,
          transcripts_per_file, combined_material, raw_transcript,
          combined_transcript, report, summary_data, log>>

\* the stored results are capped at MaxResults
CanRun == pc \in {"idle", "done", "stopped", "crashed"} /\ Len(results) < MaxResults

\* combined_material: the texts read, framed by their names, or None
CombinedMaterial(material_files) ==
    LET mat_texts ==
          [i \in 1..Len(SelectSeq(material_files,
                          LAMBDA m : m.text # <<>> /\ ~m.note)) |->
             LET m == SelectSeq(material_files,
                          LAMBDA x : x.text # <<>> /\ ~x.note)[i] IN
             Concat(<<Run("=== ", 0, 4), Run(m.name, 0, 5), Run(" ===", 0, 4),
                      Run("\n", 0, 1)>>, m.text)]
    IN  IF mat_texts = <<>> THEN None ELSE Join(Body("\n", 2), mat_texts)

\* "run" was clicked with audio files uploaded: the files are put in order
\* and the material is read.
RunStart ==
    /\ CanRun
    /\ \E audio_files \in AudioUploads, material_files \in MaterialUploads :
          /\ sorted_audio' = Sorted(audio_files)
          /\ combined_material' = CombinedMaterial(material_files)
    /\ pc' = "transcribe"
    /\ idx' = 0
    /\ transcript' = None
    /\ transcripts_per_file' = <<>>
    /\ raw_transcript' = None
    /\ combined_transcript' = None
    /\ report' = None
    /\ summary_data' = NoneData
    /\ log' = <<>>
    /\ UNCHANGED <<results, fn, args, ret, reqs>>

\* d[name] = text on a dict kept as the sequence of its items: a new key
\* goes to the end, a key the dict has keeps its place and gets the value
Put(d, name, text) ==
    IF \E i \in 1..Len(d) : d[i].name = name
    THEN [i \in 1..Len(d) |->
            IF d[i].name = name THEN [name |-> name, text |-> text] ELSE d[i]]
    ELSE Append(d, [name |-> name, text |-> text])

\* One turn of the loop over sorted_audio: the file is transcribed and kept,
\* under its name, if its transcript is not empty.
RunTranscribe ==
    /\ pc = "transcribe"
    /\ idx < Len(sorted_audio)
    /\ \E t \in RunTranscriptions :
          LET out == transcribe_audio(t.size, t.env) IN
          /\ transcript' = out.ret
          /\ transcripts_per_file' =
                IF Truthy(out.ret)
                THEN Put(transcripts_per_file, sorted_audio[idx + 1].name, out.ret)
                ELSE transcripts_per_file
          /\ log' = log \o out.reqs
    /\ idx' = idx + 1
    /\ UNCHANGED <<results, pc, sorted_audio, combined_material, raw_transcript,
                   combined_transcript, report, summary_data, fn, args, ret, reqs>>

\* a name as a text
NameText(name) == <<Run(name, 0, Len(Chars(name)))>>

\* the parts "--- fname ---\ntr" of the items, joined by an empty line
Sections(per_file) ==
    Join(Body("\n", 2),
       [i \in 1..Len(per_file) |->
          Concat(<<Run("--- ", 0, 4)>>,
            Concat(NameText(per_file[i].name),
              Concat(<<Run(" ---", 0, 4), Run("\n", 0, 1)>>, per_file[i].text)))])

\* raw_transcript: the only transcript, or the sections joined
RawTranscript(per_file) ==
    IF Len(per_file) = 1 THEN per_file[1].text ELSE Sections(per_file)

\* After the loop: the run stops if nothing was transcribed; else the
\* transcripts are joined and, if long, compressed.
RunCombine ==
    /\ pc = "transcribe"
    /\ idx = Len(sorted_audio)
    /\ IF transcripts_per_file = <<>>
       THEN /\ pc' = "stopped"
            /\ UNCHANGED <<raw_transcript, combined_transcript, log>>
       ELSE LET raw == RawTranscript(transcripts_per_file) IN
            /\ raw_transcript' = raw
            /\ pc' = "report"
            /\ IF TextLen(raw) > MAX_TRANSCRIPT_CHARS
               THEN \E resp \in RunCompressOutcomes :
                      LET out == compress_transcript(raw, resp) IN
                      /\ combined_transcript' = out.ret
                      /\ log' = log \o out.reqs
               ELSE /\ combined_transcript' = raw
                    /\ log' = log
    /\ UNCHANGED <<results, sorted_audio, idx, transcript, transcripts_per_file,
                   combined_material, report, summary_data, fn, args, ret, reqs>>

\* file_labels = list(transcripts_per_file.keys())
FileLabels(per_file) == [i \in 1..Len(per_file) |-> per_file[i].name]

\* Step 2: the report; the run stops if none came back.
RunReport ==
    /\ pc = "report"
    /\ \E resp \in RunReportOutcomes, resp2 \in RunReportOutcomes :
          LET out == generate_report(combined_transcript,
                        FileLabels(transcripts_per_file), combined_material,
                        resp, resp2) IN
          /\ report' = out.ret
          /\ log' = log \o out.reqs
          /\ pc' = IF Truthy(out.ret) THEN "summary" ELSE "stopped"
    /\ UNCHANGED <<results, sorted_audio, idx, transcript, transcripts_per_file,
                   combined_material, raw_transcript, combined_transcript,
                   summary_data, fn, args, ret, reqs>>

\* bool(d) of a parsed JSON object or None
TruthyData(d) == d # NoneData /\ DOMAIN d # {}

\* a variant that stores the text the report was made from
Result_AsSent(per_file, raw, rep, summary_html, material) ==
    [label                |-> FileLabels(per_file),
     file_labels          |-> FileLabels(per_file),
     date                 |-> Now,
     transcripts_per_file |-> per_file,
     combined_transcript  |-> combined_transcript,
     report               |-> rep,
     summary_html         |-> summary_html,
     has_material         |-> material # None]

\* the result record the run stores
Result(per_file, raw, rep, summary_html, material) ==
    [label                |-> FileLabels(per_file),
     file_labels          |-> FileLabels(per_file),
     date                 |-> Now,
     transcripts_per_file |-> per_file,
     combined_transcript  |-> raw,
     report               |-> rep,
     summary_html         |-> summary_html,
     has_material         |-> material # None]

\* Step 3: the summary is requested and, if one came back, rendered; the
\* result is put in front of the stored results.  An exception of
\* summary_to_html is caught nowhere: it ends the run.
RunSummary ==
    /\ pc = "summary"
    /\ \E resp \in RunSummaryOutcomes :
          LET out  == generate_summary_json(combined_transcript, report,
                         combined_material, resp)
              html == IF TruthyData(out.ret)
                      THEN summary_to_html(out.ret,
                              FileLabels(transcripts_per_file), Now)
                      ELSE NoneData
          IN
          /\ summary_data' = out.ret
          /\ log' = log \o out.reqs
          /\ IF TruthyData(out.ret) /\ html.raised
             THEN /\ pc' = "crashed"
                  /\ results' = results
             ELSE /\ pc' = "done"
                  /\ results' = <<Result(transcripts_per_file, raw_transcript,
                                         report, html, combined_material)>>
                                \o results
    /\ UNCHANGED <<sorted_audio, idx, transcript, transcripts_per_file,
                   combined_material, raw_transcript, combined_transcript,
                   report, fn, args, ret, reqs>>

\* Either clear button: the results are emptied and the script runs anew,
\* so what the last run held is gone.
Clear ==
    /\ pc \in {"idle", "done", "stopped", "crashed"}
    /\ results' = <<>>
    /\ pc' = "idle"
    /\ sorted_audio' = <<>>
    /\ idx' = 0
    /\ transcript' = None
    /\ transcripts_per_file' = <<>>
    /\ combined_material' = None
    /\ raw_transcript' = None
    /\ combined_transcript' = None
    /\ report' = None
    /\ summary_data' = NoneData
    /\ log' = <<>>
    /\ UNCHANGED <<fn, args, ret, reqs>>

-----------------------------------------------------------------------------
(* The specifications *)

FnInit ==
    /\ fn = "idle"
    /\ args = <<>>
    /\ ret = None
    /\ reqs = <<>>

\* the state before the first run: session_state.results = []
RunInit ==
    /\ results = <<>>
    /\ pc = "idle"
    /\ sorted_audio = <<>>
    /\ idx = 0
    /\ transcript = None
    /\ transcripts_per_file = <<>>
    /\ combined_material = None
    /\ raw_transcript = None
    /\ combined_transcript = None
    /\ report = None
    /\ summary_data = NoneData
    /\ log = <<>>

Init == FnInit /\ RunInit

\* the direct calls of the functions
FnNext ==
    /\ \/ Call_compress_transcript
       \/ Call_generate_report
       \/ Call_generate_summary_json
       \/ Call_split_audio
       \/ Call_transcribe_audio
       \/ Call_summary_to_html
    /\ UNCHANGED runVars

SpecFn == Init /\ [][FnNext]_vars

\* the runs of the main script
Next ==
    \/ RunStart
    \/ RunTranscribe
    \/ RunCombine
    \/ RunReport
    \/ RunSummary
    \/ Clear

Spec == Init /\ [][Next]_vars

-----------------------------------------------------------------------------
(* Claims on the text budgets *)

\* C1 (as stated): compress_transcript returns a text of at most 12000
\* characters for every input and every outcome of its request.
C1_CompressedWithinBudget ==
    fn = "compress_transcript" => TextLen(ret) <= 12000

\* C2: every report request of generate_report (first attempt and retry)
\* embeds at most 12000 characters of transcript and at most 3000 of
\* material, and every request of generate_summary_json embeds at most 6000
\* characters of transcript and at most 4000 of report.
C2_RequestsWithinBudgets ==
    /\ fn = "generate_report" =>
         \A i \in 1..Len(reqs) :
            /\ TextLen(reqs[i].prompt.transcript) <= 12000
            /\ TextLen(reqs[i].prompt.material) <= 3000
    /\ fn = "generate_summary_json" =>
         \A i \in 1..Len(reqs) :
            /\ TextLen(reqs[i].prompt.transcript) <= 6000
            /\ TextLen(reqs[i].prompt.report) <= 4000

\* C2's case: a retried report call whose transcript and material both
\* exceed their budgets.
C2_Witness ==
    /\ fn = "generate_report"
    /\ Len(reqs) = 2
    /\ TextLen(args.combined_transcript) > 12000
    /\ args.material_text # None
    /\ TextLen(args.material_text) > 3000

\* the messages that contain 'rate_limit_exceeded', or 'too large' in any
\* letter case
RetryMessages ==
    { <<"Error code: 429", "rate_limit_exceeded">>,
      <<"Request too large">>,
      <<"Request Too Large">> }

\* C3: generate_report sends at most two requests; the second only when the
\* first failed with a rate-limit / too-large message; any other first
\* failure, and any failure of the second request, returns None without a
\* further request.
C3_AtMostOneRetry ==
    fn = "generate_report" =>
      /\ Len(reqs) \in {1, 2}
      /\ Len(reqs) = 2 => (~args.resp.ok /\ args.resp.error \in RetryMessages)
      /\ (~args.resp.ok /\ args.resp.error \notin RetryMessages)
            => (ret = None /\ Len(reqs) = 1)
      /\ (Len(reqs) = 2 /\ ~args.resp2.ok) => ret = None

\* C3's case: a retry after a too-large message in capitals, itself failing.
C3_Witness ==
    /\ fn = "generate_report"
    /\ Len(reqs) = 2
    /\ args.resp.error = <<"Request Too Large">>
    /\ ~args.resp2.ok
    /\ ret = None

\* C4 (as stated): the transcript of the retry request is strictly shorter
\* than the transcript of the first request, for every transcript length.
C4_RetryStrictlyShorter ==
    (fn = "generate_report" /\ Len(reqs) = 2) =>
        TextLen(reqs[2].prompt.transcript) < TextLen(reqs[1].prompt.transcript)

-----------------------------------------------------------------------------
(* Claims on split_audio *)

\* the ffmpeg runs of a split_audio call, in order (the first request is
\* the ffprobe run)
Segments == SubSeq(reqs, 2, Len(reqs))

\* the smallest number of windows of length c that cover d
Ceil(d, c) == (d + c - 1) \div c

\* C5: segment i is requested with start i * chunk_sec and length chunk_sec,
\* consecutive segments neither overlap nor leave a gap, and when no run
\* fails the requested segments cover [0, duration).
C5_SegmentsTile ==
    fn = "split_audio" =>
      /\ \A i \in 1..Len(Segments) :
            /\ Segments[i].ss = (i - 1) * args.chunk_sec
            /\ Segments[i].t = args.chunk_sec
      /\ \A i \in 1..(Len(Segments) - 1) :
            Segments[i].ss + Segments[i].t = Segments[i + 1].ss
      /\ ~args.raised =>
            /\ Len(Segments) >= 1
            /\ Segments[1].ss = 0
            /\ Segments[Len(Segments)].ss + Segments[Len(Segments)].t
                  >= args.env.duration

\* C5's case: a split of three segments that ran to its end on an audio
\* that ends inside the third.
C5_Witness ==
    /\ fn = "split_audio"
    /\ ~args.raised
    /\ Len(Segments) = 3
    /\ args.env.duration > Segments[3].ss
    /\ args.env.duration < Segments[3].ss + Segments[3].t

\* C6 (as stated): for duration > 0 the number of requested segments is
\* ceil(duration / chunk_sec), so every segment starts strictly before the
\* end of the audio, also when duration is a multiple of chunk_sec.
C6_SegmentCountIsCeil ==
    (fn = "split_audio" /\ ~args.raised /\ args.env.duration > 0) =>
      /\ Len(Segments) = Ceil(args.env.duration, args.chunk_sec)
      /\ \A i \in 1..Len(Segments) : Segments[i].ss < args.env.duration

\* C6 (amended): for duration > 0 the number of requested segments is
\* floor(duration / chunk_sec) + 1.  That is ceil(duration / chunk_sec), every
\* segment starting strictly before the end, when duration is no multiple of
\* chunk_sec; when it is a multiple, one segment more than the ceiling is
\* requested, and that last one starts exactly at the end of the audio.
C6_SegmentCountIsFloorPlusOne ==
    (fn = "split_audio" /\ ~args.raised /\ args.env.duration > 0) =>
      LET d == args.env.duration
          c == args.chunk_sec
          n == Len(Segments)
      IN  /\ n = (d \div c) + 1
          /\ d % c # 0 =>
                /\ n = Ceil(d, c)
                /\ \A i \in 1..n : Segments[i].ss < d
          /\ d % c = 0 =>
                /\ n = Ceil(d, c) + 1
                /\ Segments[n].ss = d
                /\ \A i \in 1..(n - 1) : Segments[i].ss < d

\* C6's case: a split that ran to its end on an audio exactly two windows
\* long.
C6_Witness ==
    /\ fn = "split_audio"
    /\ ~args.raised
    /\ args.env.duration = 2 * args.chunk_sec
    /\ Len(Segments) = 3

-----------------------------------------------------------------------------
(* Claims on transcribe_audio *)

\* whether the call sent a request to the given api
Sent(api) == \E i \in 1..Len(reqs) : reqs[i].api = api

\* the speech-to-text requests of the call, in order
SttRequests == SelectSeq(reqs, LAMBDA r : r.api = "audio.transcriptions.create")

\* the call went down the chunked path: split_audio returned chunks
Chunked ==
    /\ fn = "transcribe_audio"
    /\ Sent("split_audio")
    /\ split_audio(DEFAULT_CHUNK_SEC, args.env.split).ret # <<>>

\* the chunks split_audio returned and the texts answered for them
ChunksReturned == split_audio(DEFAULT_CHUNK_SEC, args.env.split).ret
ChunkTexts == [k \in 1..Len(ChunksReturned) |-> args.env.stt[k].text]
AllChunksAnswered == \A k \in 1..Len(ChunksReturned) : args.env.stt[k].ok

\* C7 (as stated): on the chunked path the result is None or the texts of
\* all chunks in ascending order, each once, separated by single spaces; a
\* failure of any chunk's request yields None.
C7_ChunksJoined ==
    Chunked =>
      /\ AllChunksAnswered => ret = Join(Body(" ", 1), ChunkTexts)
      /\ ~AllChunksAnswered => ret = None

\* C7 (amended): as above, with the whitespace at the start and at the end
\* of the concatenation removed.
C7_ChunksJoinedAndStripped ==
    Chunked =>
      /\ AllChunksAnswered =>
            /\ ret = Strip(Join(Body(" ", 1), ChunkTexts))
            /\ [k \in 1..Len(SttRequests) |-> SttRequests[k].file]
                  = [k \in 1..Len(ChunksReturned) |-> <<"chunk", ChunksReturned[k]>>]
      /\ ~AllChunksAnswered => ret = None

\* C7's case: two chunks, both answered, the first text starting with a
\* blank.
C7_Witness ==
    /\ Chunked
    /\ Len(ChunksReturned) = 2
    /\ AllChunksAnswered
    /\ ChunkTexts[1] = Concat(Body(" ", 1), Body("a", 1))
    /\ ChunkTexts[2] = Body("b", 1)
    /\ ret = <<Run("a", 0, 1), Run(" ", 0, 1), Run("b", 0, 1)>>

\* C8: compression is attempted iff the original size is above 24 MiB;
\* splitting iff the working file is still above it; a file is sent whole
\* only when its size is at most 24 MiB; a failed compression or an empty
\* split result returns None without any speech-to-text request.
C8_SizeThreshold ==
    fn = "transcribe_audio" =>
      LET T == 24 * 1024 * 1024
          compressed == args.size > T /\ args.env.comp_ok
      IN  /\ Sent("compress_audio") <=> args.size > T
          /\ Sent("split_audio") <=> (compressed /\ args.env.comp_size > T)
          /\ \A i \in 1..Len(SttRequests) :
                SttRequests[i].file[1] # "chunk" => SttRequests[i].size <= T
          /\ (args.size > T /\ ~args.env.comp_ok)
                => (ret = None /\ SttRequests = <<>>)
          /\ (Sent("split_audio") /\ ChunksReturned = <<>>)
                => (ret = None /\ SttRequests = <<>>)

\* C8's case: a file one byte above the threshold, compressed to exactly
\* the threshold and sent whole.
C8_Witness ==
    /\ fn = "transcribe_audio"
    /\ args.size = 24 * 1024 * 1024 + 1
    /\ args.env.comp_size = 24 * 1024 * 1024
    /\ Len(SttRequests) = 1
    /\ SttRequests[1].file = <<"comp">>
    /\ ret # None

-----------------------------------------------------------------------------
(* Claims on summary_to_html *)

\* the summary object holds no null
NoNull(data) == \A k \in DOMAIN data : data[k].t # "null"

\* the key is absent from the object, or its list is empty
AbsentOrEmpty(data, k) == k \notin DOMAIN data \/ data[k].v = <<>>

\* C9: for every summary object in which any subset of the schema keys is
\* absent, summary_to_html returns a document without raising; absent or
\* empty decisions, actions, concerns and next_topics each render the
\* placeholder; the KPI row and the keyword section are omitted exactly
\* when key_numbers / keywords are absent or empty.
C9_MissingFieldsHandled ==
    (fn = "summary_to_html" /\ NoNull(args.data)) =>
      /\ ~ret.raised
      /\ AbsentOrEmpty(args.data, "decisions") => ret.dec_html.note = "genkyuu-nashi"
      /\ AbsentOrEmpty(args.data, "actions") => ret.act_html.note = "genkyuu-nashi"
      /\ AbsentOrEmpty(args.data, "concerns") => ret.con_html.note = "genkyuu-nashi"
      /\ AbsentOrEmpty(args.data, "next_topics") => ret.next_html.note = "genkyuu-nashi"
      /\ AbsentOrEmpty(args.data, "key_numbers") <=> ret.kpi_row.wrapper # "kpi-row"
      /\ AbsentOrEmpty(args.data, "keywords")
            <=> ret.keyword_section.wrapper # "keyword-wrap"

\* C9's case: the empty object, rendered with four placeholders and
\* neither a KPI row nor a keyword section.
C9_Witness ==
    /\ fn = "summary_to_html"
    /\ DOMAIN args.data = {}
    /\ ~ret.raised
    /\ ret.dec_html.note = "genkyuu-nashi"
    /\ ret.next_html.note = "genkyuu-nashi"
    /\ ret.kpi_row = Nothing
    /\ ret.keyword_section = Nothing

-----------------------------------------------------------------------------
(* Claims on the processing run *)

\* the step of the run a request belongs to
Stage(r) ==
    IF r.api # "chat.completions.create" THEN 1
    ELSE CASE r.purpose = "compress" -> 2
           [] r.purpose = "report"   -> 3
           [] r.purpose = "summary"  -> 4

\* whether the run has sent a request of the given stage
Requested(stage) == \E i \in 1..Len(log) : Stage(log[i]) = stage

\* the requests of a run go transcription, (compression,) report, summary
RunOrdered ==
    \A i, j \in 1..Len(log) : i < j => Stage(log[i]) <= Stage(log[j])

\* a report is requested only after a file came back with a transcript
ReportGated ==
    Requested(3) =>
        /\ transcripts_per_file # <<>>
        /\ \A i \in 1..Len(transcripts_per_file) :
              Truthy(transcripts_per_file[i].text)
        /\ Requested(1)

\* a summary is requested only after a report request returned a report
SummaryGated ==
    Requested(4) => Requested(3) /\ Truthy(report)

\* the step that follows the report stores the run in front of the results
SummaryStepStoresRun ==
    pc = "summary" =>
        /\ Len(results') = Len(results) + 1
        /\ Tail(results') = results
        /\ results'[1].report = report
        /\ results'[1].combined_transcript = raw_transcript
        /\ results'[1].transcripts_per_file = transcripts_per_file
        /\ (~TruthyData(summary_data') => results'[1].summary_html = NoneData)

\* the same, for the runs whose summary request failed or brought no object
FailedRequestStoresRun ==
    (pc = "summary" /\ ~TruthyData(summary_data')) => SummaryStepStoresRun

\* C10: in a run the requests go transcription, report, summary; a report is
\* requested only if a file was transcribed, a summary only if a report came
\* back; and whatever happens in the summary step, the run is stored with
\* its transcript and its report (summary_html None if no summary came).
C10_StepsGatedAndRunKept ==
    /\ [](RunOrdered /\ ReportGated /\ SummaryGated)
    /\ [][SummaryStepStoresRun]_vars

\* the parts of C10 that hold: the order, the two gates, and the run being
\* stored when the summary request itself failed
C10_GatesAndFailedRequest ==
    /\ [](RunOrdered /\ ReportGated /\ SummaryGated)
    /\ [][FailedRequestStoresRun]_vars

\* a run stored without a summary, and a run lost in the summary step
C10_StoredWithoutSummary ==
    /\ pc = "done"
    /\ ~TruthyData(summary_data)
    /\ results # <<>>
    /\ results[1].summary_html = NoneData
    /\ results[1].report = report

C10_RunLost ==
    /\ pc = "crashed"
    /\ Requested(4)
    /\ Truthy(report)
    /\ results = <<>>

-----------------------------------------------------------------------------
(* Claims on several files in one run *)

\* the files are processed in the order of their sort_key
SortedByKey ==
    \A i, j \in 1..Len(sorted_audio) :
        i < j => ~StrLess(sort_key(sorted_audio[j].name),
                          sort_key(sorted_audio[i].name))

\* a turn of the loop adds the file it transcribed after the files kept so
\* far, and adds nothing for a file without a transcript
LoopStepKeepsFile ==
    (pc = "transcribe" /\ idx' = idx + 1) =>
        transcripts_per_file' =
            IF Truthy(transcript')
            THEN Append(transcripts_per_file,
                        [name |-> sorted_audio[idx + 1].name, text |-> transcript'])
            ELSE transcripts_per_file

\* several files uploaded: the combined transcript is the sections of the
\* files kept
RawIsSections ==
    (raw_transcript # None /\ Len(sorted_audio) > 1) =>
        raw_transcript = Sections(transcripts_per_file)

\* the report requests of the run
ReportRequests == SelectSeq(log, LAMBDA r : Stage(r) = 3)

\* one call of generate_report: one request, or one and its retry
OneReportSequence ==
    /\ Len(ReportRequests) <= 2
    /\ pc \in {"summary", "done", "crashed"} => Len(ReportRequests) >= 1

\* the results grow by one result at a time, at the end of a run
AtMostOneStored ==
    Len(results') > Len(results) =>
        /\ Len(results') = Len(results) + 1
        /\ pc = "summary"
        /\ pc' = "done"

\* C11: several files are transcribed in the order of sort_key; every file
\* that was transcribed has its section "--- name ---" and text in the
\* combined transcript, in that order, the files that failed have none; the
\* run makes one report request sequence and stores at most one result.
C11_FilesCombinedInOrder ==
    /\ [](SortedByKey /\ RawIsSections /\ OneReportSequence)
    /\ [][LoopStepKeepsFile /\ AtMostOneStored]_vars

\* the names of the uploaded files differ
DistinctNames ==
    \A i, j \in 1..Len(sorted_audio) :
        i # j => sorted_audio[i].name # sorted_audio[j].name

\* the parts of C11 that hold: the order, the one report request sequence,
\* the one result; and, for files of different names of which two or more
\* were transcribed, the sections
C11_DistinctNamesCombined ==
    /\ [](SortedByKey /\ OneReportSequence)
    /\ []((Len(transcripts_per_file) > 1) => RawIsSections)
    /\ [][AtMostOneStored /\ (DistinctNames => LoopStepKeepsFile)]_vars

\* two files of one name were both transcribed, and one transcript is kept
C11_TranscriptReplaced ==
    /\ pc = "report"
    /\ Len(sorted_audio) = 2
    /\ ~DistinctNames
    /\ Len(transcripts_per_file) = 1
    /\ Len(SelectSeq(log, LAMBDA r : r.api = "audio.transcriptions.create")) = 2

-----------------------------------------------------------------------------
(* Claims on compress_transcript *)

\* C12: compress_transcript returns a text of at most 12000 characters as it
\* is and sends no request; for a longer text whose request fails it
\* returns the first 12000 characters of the text.
C12_IdentityOrPrefix ==
    fn = "compress_transcript" =>
        /\ TextLen(args.text) <= MAX_TRANSCRIPT_CHARS =>
              ret = args.text /\ reqs = <<>>
        /\ (TextLen(args.text) > MAX_TRANSCRIPT_CHARS /\ ~args.resp.ok) =>
              /\ ret = Prefix(args.text, MAX_TRANSCRIPT_CHARS)
              /\ TextLen(ret) = MAX_TRANSCRIPT_CHARS
              /\ Len(reqs) = 1

\* a text three times the budget long whose request failed
C12_Witness ==
    /\ fn = "compress_transcript"
    /\ TextLen(args.text) >= 3 * MAX_TRANSCRIPT_CHARS
    /\ ~args.resp.ok
    /\ Len(reqs) = 1
    /\ TextLen(ret) = MAX_TRANSCRIPT_CHARS

-----------------------------------------------------------------------------
(* Claims on the stored results *)

\* the text of the run's report request, as the prompt holds it
SentTranscript == ReportRequests[1].prompt.transcript

\* C13: every stored result holds the joined transcripts as they came from
\* transcription, and the result of the run that just ended holds the run's
\* raw transcript and per-file transcripts, whatever was compressed or cut
\* for the requests.
C13_RawTranscriptStored ==
    /\ \A k \in 1..Len(results) :
          results[k].combined_transcript =
              RawTranscript(results[k].transcripts_per_file)
    /\ pc = "done" =>
          /\ results # <<>>
          /\ results[1].combined_transcript = raw_transcript
          /\ results[1].transcripts_per_file = transcripts_per_file

\* a run whose transcript was compressed and then cut for the request
C13_Witness ==
    /\ pc = "done"
    /\ TextLen(raw_transcript) > MAX_TRANSCRIPT_CHARS
    /\ combined_transcript # raw_transcript
    /\ TextLen(combined_transcript) > MAX_TRANSCRIPT_CHARS
    /\ TextLen(SentTranscript) = MAX_TRANSCRIPT_CHARS
    /\ results[1].combined_transcript = raw_transcript

\* the step of a run that has its report puts one new result in front
Prepended ==
    /\ pc = "summary"
    /\ Len(results') = Len(results) + 1
    /\ Tail(results') = results
    /\ results'[1].report = report
    /\ results'[1].combined_transcript = raw_transcript

\* a clear button empties the list
Cleared ==
    /\ pc \in {"idle", "done", "stopped", "crashed"}
    /\ pc' = "idle"
    /\ results' = <<>>

\* any other step, a run stopping without transcript or report among them,
\* leaves the list as it is
Kept ==
    /\ pc # "summary"
    /\ results' = results

\* C14: the stored results change in two ways only: a run that obtained a
\* report puts exactly one new result in front, and a clear button empties
\* the list; every other step, the stop of a run that has no transcript or
\* no report among them, leaves the list unchanged.
C14_ResultsPrependedOrCleared ==
    [][Prepended \/ Cleared \/ Kept]_vars

\* the run that has its report ends in the summary step without a result
LostInSummaryStep ==
    /\ pc = "summary"
    /\ pc' = "crashed"
    /\ results' = results

\* the part of C14 that holds: the list changes by a result put in front or
\* by a clear only
C14_NoOtherChange ==
    [][Prepended \/ Cleared \/ Kept \/ LostInSummaryStep]_vars

\* a run that had its report and stored nothing
C14_ReportWithoutResult ==
    /\ pc = "crashed"
    /\ Truthy(report)
    /\ Len(ReportRequests) >= 1
    /\ results = <<>>
    /\ TruthyData(summary_data)

-----------------------------------------------------------------------------
(* Claims on the urgency badge *)

\* the urgency level an icon, a colour, a background and a text stand for
LevelOfIcon(icon) ==
    CASE icon = "red" -> URGENCY_HIGH
      [] icon = "yellow" -> URGENCY_MID
      [] icon = "green" -> URGENCY_LOW

LevelOfColor(c) ==
    CASE c = "#e53e5a" -> URGENCY_HIGH
      [] c = "#f5a623" -> URGENCY_MID
      [] c = "#22c38e" -> URGENCY_LOW
      [] OTHER -> "none"

LevelOfBg(c) ==
    CASE c = "#fff0f2" -> URGENCY_HIGH
      [] c = "#fff8ee" -> URGENCY_MID
      [] c = "#f0fff8" -> URGENCY_LOW
      [] OTHER -> "none"

\* the badge of the html returned: icon, colours and text agree
BadgeConsistent ==
    /\ LevelOfIcon(ret.urgency_icon) = LevelOfColor(ret.urgency_color)
    /\ LevelOfColor(ret.urgency_color) = LevelOfBg(ret.urgency_bg)
    /\ ret.urgency_text = Fmt(JStr(LevelOfIcon(ret.urgency_icon)))

\* the call rendered a summary
Rendered == fn = "summary_to_html" /\ ~ret.raised

\* the summary has one of the three urgency values of the schema
KnownUrgency ==
    /\ "urgency" \in DOMAIN args.data
    /\ args.data.urgency \in
          {JStr(URGENCY_HIGH), JStr(URGENCY_MID), JStr(URGENCY_LOW)}

\* C15: in the html of every summary object, one without an urgency key or
\* with an unknown urgency included, the icon, the colour and the text of
\* the urgency badge denote the same urgency level.
C15_BadgeConsistent == Rendered => BadgeConsistent

\* the part of C15 that holds: the badge of a summary with an urgency of
\* the schema
C15_KnownUrgencyConsistent == (Rendered /\ KnownUrgency) => BadgeConsistent

\* a summary without urgency: the text and the colours of the middle level
\* under the green icon
C15_MissingUrgencyBadge ==
    /\ Rendered
    /\ "urgency" \notin DOMAIN args.data
    /\ ret.urgency_icon = "green"
    /\ LevelOfColor(ret.urgency_color) = URGENCY_MID
    /\ ret.urgency_text = Fmt(JStr(URGENCY_MID))

\* a summary with an urgency outside the schema: grey under the green icon
C15_UnknownUrgencyBadge ==
    /\ Rendered
    /\ "urgency" \in DOMAIN args.data
    /\ ~KnownUrgency
    /\ ret.urgency_icon = "green"
    /\ LevelOfColor(ret.urgency_color) = "none"

=============================================================================
